---- MODULE Spec2Model ----
(***************************************************************************)
(* Model of org.py: list the directory, ask the completion service for a   *)
(* Bash script, show it, ask for confirmation, execute it.                 *)
(*                                                                         *)
(* Python strings are sequences of one-character strings, so that slicing, *)
(* strip(), startswith(), splitlines() and the "in" test are computed on   *)
(* characters as the code computes them.  None is a one-element sequence   *)
(* whose element is not a character.                                       *)
(***************************************************************************)
EXTENDS Integers, Sequences, FiniteSets, TLC

(* ------------------------------ bounds --------------------------------- *)

\* child processes return codes 1..MaxReturnCode, or -1..-MaxSignal when killed
MaxReturnCode == 2
MaxSignal == 1
\* at most MaxPad whitespace characters are put around a completion response
MaxPad == 1

(* ------------------------- Python string model ------------------------- *)

None == <<"<None>">>

\* bool(v) of a str-or-None value
Truthy(v) == v # None /\ v # <<>>

IsSpace(c) == c \in {" ", "\t", "\n", "\r"}

IsLineBreak(c) == c \in {"\n", "\r"}

lstrip(s) ==
    IF \A i \in 1..Len(s) : IsSpace(s[i]) THEN <<>>
    ELSE LET f == CHOOSE i \in 1..Len(s) :
                      ~IsSpace(s[i]) /\ \A j \in 1..(i-1) : IsSpace(s[j])
         IN  SubSeq(s, f, Len(s))

rstrip(s) ==
    IF \A i \in 1..Len(s) : IsSpace(s[i]) THEN <<>>
    ELSE LET l == CHOOSE i \in 1..Len(s) :
                      ~IsSpace(s[i]) /\ \A j \in (i+1)..Len(s) : IsSpace(s[j])
         IN  SubSeq(s, 1, l)

strip(s) == rstrip(lstrip(s))

startswith(s, p) == Len(s) >= Len(p) /\ SubSeq(s, 1, Len(p)) = p

endswith(s, p) == Len(s) >= Len(p) /\ SubSeq(s, Len(s) - Len(p) + 1, Len(s)) = p

\* sub in s
contains(sub, s) ==
    \E i \in 0..(Len(s) - Len(sub)) : SubSeq(s, i + 1, i + Len(sub)) = sub

\* s[n:]
SliceFrom(s, n) == SubSeq(s, n + 1, Len(s))

\* s[:-n]
SliceDropLast(s, n) == SubSeq(s, 1, Len(s) - n)

lowerChar(c) ==
    CASE c = "Y" -> "y"
      [] c = "N" -> "n"
      [] c = "E" -> "e"
      [] c = "S" -> "s"
      [] OTHER   -> c

lower(s) == [i \in 1..Len(s) |-> lowerChar(s[i])]

RECURSIVE splitlines(_)
splitlines(s) ==
    IF s = <<>> THEN <<>>
    ELSE IF \A i \in 1..Len(s) : ~IsLineBreak(s[i]) THEN <<s>>
    ELSE LET b    == CHOOSE i \in 1..Len(s) :
                         IsLineBreak(s[i]) /\ \A j \in 1..(i-1) : ~IsLineBreak(s[j])
             skip == IF s[b] = "\r" /\ b < Len(s) /\ s[b+1] = "\n" THEN 2 ELSE 1
         IN  <<SubSeq(s, 1, b - 1)>> \o splitlines(SubSeq(s, b + skip, Len(s)))

\* sep.join(lines)
RECURSIVE join(_, _)
join(sep, lines) ==
    IF lines = <<>> THEN <<>>
    ELSE IF Len(lines) = 1 THEN lines[1]
    ELSE lines[1] \o sep \o join(sep, Tail(lines))

\* number of (possibly overlapping) occurrences of sub in s
Count(sub, s) ==
    Cardinality({i \in 0..(Len(s) - Len(sub)) : SubSeq(s, i + 1, i + Len(sub)) = sub})

(* ----------------------------- literals -------------------------------- *)

NL == <<"\n">>

\* the grave accent, U+0060, which a TLA+ string cannot hold, is written "~";
\* no other character of the model is "~"
FENCE == <<"~", "~", "~">>

FENCE_BASH == FENCE \o <<"b", "a", "s", "h">>

HASHBANG == <<"#", "!">>

BIN_BASH == <<"#", "!", "/", "b", "i", "n", "/", "b", "a", "s", "h">>

SHEBANG == BIN_BASH \o NL

PLACEHOLDER ==
    SHEBANG \o <<"#", " ", "G", "r", "o", "q", " ", "r", "e", "t", "u", "r", "n",
                 "e", "d", " ", "e", "m", "p", "t", "y", " ", "r", "e", "s", "p",
                 "o", "n", "s", "e">>

\* the marker tested in __main__, with its leading blank
EMPTY_MARKER ==
    <<" ", "0", " ", "d", "i", "r", "e", "c", "t", "o", "r", "i", "e", "s", ",",
      " ", "0", " ", "f", "i", "l", "e", "s">>

(* ------------------------- pure program logic -------------------------- *)

\* org.py:203
Insignificant(tree_out) ==
    \/ ~Truthy(tree_out)
    \/ strip(tree_out) = <<>>
    \/ contains(EMPTY_MARKER, tree_out)

\* mutation: only the empty string counts as a missing key
KeyMissingEmptyOnly(key) == key = <<>>

\* org.py:77  (not api_key)
KeyMissing(key) == ~Truthy(key)

\* mutation: the whitespace test is dropped
IsEmptyResponseNoStrip(rc) == ~Truthy(rc)

\* org.py:107
IsEmptyResponse(rc) == ~Truthy(rc) \/ strip(rc) = <<>>

\* org.py:112-119
StripFences(rc) ==
    IF startswith(strip(rc), FENCE_BASH)
    THEN LET a == SliceFrom(strip(rc), 7)
         IN  IF endswith(a, FENCE) THEN SliceDropLast(a, 3) ELSE a
    ELSE IF startswith(strip(rc), FENCE)
    THEN LET a == SliceFrom(strip(rc), 3)
         IN  IF endswith(a, FENCE) THEN SliceDropLast(a, 3) ELSE a
    ELSE rc

\* mutation: the directive is prepended unconditionally
EnsureShebangAlways(rc) == SHEBANG \o rc

\* org.py:123-124
EnsureShebang(rc) ==
    IF ~startswith(strip(rc), HASHBANG) THEN SHEBANG \o rc ELSE rc

\* org.py:107-126: the value get_groq_completion returns for a response
Normalize(rc) ==
    IF IsEmptyResponse(rc) THEN PLACEHOLDER
    ELSE strip(EnsureShebang(StripFences(rc)))

\* mutation: comment lines count as commands
IsCommandLineKeepComments(line) == strip(line) # <<>>

\* org.py:152
IsCommandLine(line) == strip(line) # <<>> /\ ~startswith(strip(line), <<"#">>)

RECURSIVE FilterLines(_)
FilterLines(lines) ==
    IF lines = <<>> THEN <<>>
    ELSE IF IsCommandLine(Head(lines))
         THEN <<Head(lines)>> \o FilterLines(Tail(lines))
         ELSE FilterLines(Tail(lines))

\* org.py:152
clean_script(script_content) == join(NL, FilterLines(splitlines(script_content)))

\* mutation: everything but "n" confirms
IsConfirmedDefaultYes(answer) == lower(answer) # <<"n">>

\* mutation: the answer is compared without lower()
IsConfirmedCaseSensitive(answer) == answer = <<"y">>

\* org.py:229
IsConfirmed(answer) == lower(answer) = <<"y">>

\* the exit status the operating system reports for sys.exit(code)
SysExit(code) == code % 256

\* org.py:184: the index of the line printed as a hint exists
HintLineExists(script_content) ==
    LET idx == IF ~startswith(script_content, HASHBANG) THEN 0 ELSE 1
    IN  idx + 1 <= Len(splitlines(script_content))

(* ------------------------------ inputs --------------------------------- *)

\* what os.environ.get("GROQ_API_KEY") can return
ApiKeys == {None, <<>>, <<"k">>}

\* stdout of a successful tree -L 1
Listings ==
    { <<>>,
      NL,
      \* an empty directory, as tree prints it
      <<".", "\n", "\n", "0", " ", "d", "i", "r", "e", "c", "t", "o", "r", "i",
        "e", "s", ",", " ", "0", " ", "f", "i", "l", "e", "s", "\n">>,
      \* the summary line preceded by a blank
      <<".", "\n", " ", "0", " ", "d", "i", "r", "e", "c", "t", "o", "r", "i",
        "e", "s", ",", " ", "0", " ", "f", "i", "l", "e", "s", "\n">>,
      \* ten sub-directories
      <<".", "\n", "d", "\n", "\n", "1", "0", " ", "d", "i", "r", "e", "c", "t",
        "o", "r", "i", "e", "s", ",", " ", "0", " ", "f", "i", "l", "e", "s", "\n">>,
      \* one file
      <<".", "\n", "a", "\n", "\n", "0", " ", "d", "i", "r", "e", "c", "t", "o",
        "r", "i", "e", "s", ",", " ", "1", " ", "f", "i", "l", "e", "\n">> }

PadChars == {" ", "\n"}

Pads == UNION {[1..n -> PadChars] : n \in 0..MaxPad}

\* language tags of an opening fence
Tags == {<<>>, <<"b", "a", "s", "h">>, <<"s", "h">>}

SH_LINE == <<"#", "!", "/", "b", "i", "n", "/", "s", "h">>

\* inner contents of a fenced block, and unfenced scripts
Inners ==
    { <<>>,
      <<"l", "s">>,
      <<"#", " ", "x">>,
      SH_LINE \o NL \o <<"l", "s">>,
      <<"l", "s">> \o NL \o <<"#", " ", "x">> }

Fenced(tag, inner) == FENCE \o tag \o NL \o inner \o NL \o FENCE

Cores ==
    Inners
    \cup { SH_LINE, BIN_BASH \o NL \o <<"l", "s">>,
           SH_LINE \o NL \o SH_LINE \o NL \o <<"l", "s">> }
    \cup { Fenced(t, i) : t \in Tags, i \in Inners }
    \cup { FENCE \o t \o NL \o <<"l", "s">> : t \in Tags }

\* message.content of the completion
Responses == {None} \cup { l \o c \o r : l \in Pads, c \in Cores, r \in Pads }

\* lines input() can return
Answers ==
    { <<>>, <<"y">>, <<"Y">>, <<"n">>, <<"N">>, <<"y", "e", "s">>, <<" ", "y">>,
      <<"y", " ">> }

ReturnCodes == 1..MaxReturnCode

SignalCodes == { 0 - n : n \in 1..MaxSignal }

(* ------------------------------- state --------------------------------- *)

VARIABLES
    pc,                     \* position in __main__
    api_key,                \* the environment's GROQ_API_KEY
    tree_output,            \* stdout of the listing
    tree_returncode,        \* <<>> or <<returncode of tree>>
    response_content,       \* raw completion response, <<"-">> before the call
    completion_called,      \* the completion service was called
    generated_bash_script,  \* value returned by get_groq_completion
    script_shown,           \* the script was printed for review
    prompted,               \* input() was called
    confirm,                \* <<line read>> or <<>> (nothing read)
    executor_entered,       \* execute_bash_script was entered
    bash_args,              \* <<>> or <<script handed to /bin/bash -ec>>
    bash_returncode,        \* <<>> or <<returncode of bash>>
    exit_code,              \* <<>> while running, <<status>> once terminated
    message                 \* the last diagnostic printed before terminating

vars == <<pc, api_key, tree_output, tree_returncode, response_content,
          completion_called, generated_bash_script, script_shown, prompted,
          confirm, executor_entered, bash_args, bash_returncode, exit_code,
          message>>

NoResponse == <<"-">>

Init ==
    /\ pc = "run_tree"
    /\ api_key \in ApiKeys
    /\ tree_output = <<>>
    /\ tree_returncode = <<>>
    /\ response_content = NoResponse
    /\ completion_called = FALSE
    /\ generated_bash_script = <<>>
    /\ script_shown = FALSE
    /\ prompted = FALSE
    /\ confirm = <<>>
    /\ executor_entered = FALSE
    /\ bash_args = <<>>
    /\ bash_returncode = <<>>
    /\ exit_code = <<>>
    /\ message = ""

\* sys.exit(code)
Exit(code, msg) ==
    /\ pc' = "exited"
    /\ exit_code' = <<SysExit(code)>>
    /\ message' = msg

(* --------------------------- run_tree_command -------------------------- *)

\* org.py:37-46
TreeOk ==
    /\ pc = "run_tree"
    /\ \E out \in Listings : tree_output' = out
    /\ tree_returncode' = <<0>>
    /\ pc' = "check_listing"
    /\ UNCHANGED <<api_key, response_content, completion_called,
                   generated_bash_script, script_shown, prompted, confirm,
                   executor_entered, bash_args, bash_returncode, exit_code,
                   message>>

\* org.py:48-53
TreeNotFound ==
    /\ pc = "run_tree"
    /\ Exit(1, "tree not found")
    /\ UNCHANGED <<api_key, tree_output, tree_returncode, response_content,
                   completion_called, generated_bash_script, script_shown,
                   prompted, confirm, executor_entered, bash_args,
                   bash_returncode>>

\* mutation: a failed listing always exits with status 1
TreeFailedExitOne ==
    /\ pc = "run_tree"
    /\ \E rc \in ReturnCodes \cup SignalCodes :
          /\ tree_returncode' = <<rc>>
          /\ Exit(1, "tree failed")
    /\ UNCHANGED <<api_key, tree_output, response_content, completion_called,
                   generated_bash_script, script_shown, prompted, confirm,
                   executor_entered, bash_args, bash_returncode>>

\* org.py:55-63
TreeFailed ==
    /\ pc = "run_tree"
    /\ \E rc \in ReturnCodes \cup SignalCodes :
          /\ tree_returncode' = <<rc>>
          /\ Exit(rc, "tree failed")
    /\ UNCHANGED <<api_key, tree_output, response_content, completion_called,
                   generated_bash_script, script_shown, prompted, confirm,
                   executor_entered, bash_args, bash_returncode>>

\* org.py:65-67
TreeUnexpected ==
    /\ pc = "run_tree"
    /\ Exit(1, "unexpected error running tree")
    /\ UNCHANGED <<api_key, tree_output, tree_returncode, response_content,
                   completion_called, generated_bash_script, script_shown,
                   prompted, confirm, executor_entered, bash_args,
                   bash_returncode>>

(* ------------------------------ __main__ ------------------------------- *)

\* org.py:203-205
ListingInsignificant ==
    /\ pc = "check_listing"
    /\ Insignificant(tree_output)
    /\ Exit(0, "no significant output")
    /\ UNCHANGED <<api_key, tree_output, tree_returncode, response_content,
                   completion_called, generated_bash_script, script_shown,
                   prompted, confirm, executor_entered, bash_args,
                   bash_returncode>>

\* org.py:203, 208
ListingSignificant ==
    /\ pc = "check_listing"
    /\ ~Insignificant(tree_output)
    /\ pc' = "completion"
    /\ UNCHANGED <<api_key, tree_output, tree_returncode, response_content,
                   completion_called, generated_bash_script, script_shown,
                   prompted, confirm, executor_entered, bash_args,
                   bash_returncode, exit_code, message>>

(* -------------------------- get_groq_completion ------------------------ *)

\* org.py:75-81
GroqNoKey ==
    /\ pc = "completion"
    /\ KeyMissing(api_key)
    /\ Exit(1, "GROQ_API_KEY not set")
    /\ UNCHANGED <<api_key, tree_output, tree_returncode, response_content,
                   completion_called, generated_bash_script, script_shown,
                   prompted, confirm, executor_entered, bash_args,
                   bash_returncode>>

\* org.py:85-101, 129-141: the call raises
GroqError ==
    /\ pc = "completion"
    /\ ~KeyMissing(api_key)
    /\ completion_called' = TRUE
    /\ Exit(1, "error during the Groq API call")
    /\ UNCHANGED <<api_key, tree_output, tree_returncode, response_content,
                   generated_bash_script, script_shown, prompted, confirm,
                   executor_entered, bash_args, bash_returncode>>

\* org.py:85-126: the call returns a message
GroqResponse ==
    /\ pc = "completion"
    /\ ~KeyMissing(api_key)
    /\ completion_called' = TRUE
    /\ \E rc \in Responses :
          /\ response_content' = rc
          /\ generated_bash_script' = Normalize(rc)
    /\ pc' = "show"
    /\ UNCHANGED <<api_key, tree_output, tree_returncode, script_shown,
                   prompted, confirm, executor_entered, bash_args,
                   bash_returncode, exit_code,
                   message>>

(* -------------------------- review and confirm ------------------------- *)

\* org.py:211-220
ShowScript ==
    /\ pc = "show"
    /\ script_shown' = TRUE
    /\ pc' = "prompt"
    /\ UNCHANGED <<api_key, tree_output, tree_returncode, response_content,
                   completion_called, generated_bash_script, prompted, confirm,
                   executor_entered, bash_args, bash_returncode, exit_code,
                   message>>

\* org.py:224
ReadConfirm ==
    /\ pc = "prompt"
    /\ prompted' = TRUE
    /\ \E line \in Answers : confirm' = <<line>>
    /\ pc' = "gate"
    /\ UNCHANGED <<api_key, tree_output, tree_returncode, response_content,
                   completion_called, generated_bash_script, script_shown,
                   executor_entered, bash_args, bash_returncode, exit_code,
                   message>>

\* mutation: end-of-input is handled like a declined prompt
ReadConfirmEOFAsDecline ==
    /\ pc = "prompt"
    /\ prompted' = TRUE
    /\ Exit(0, "execution cancelled by user")
    /\ UNCHANGED <<api_key, tree_output, tree_returncode, response_content,
                   completion_called, generated_bash_script, script_shown,
                   confirm, executor_entered, bash_args, bash_returncode>>

\* org.py:225-227
ReadConfirmEOF ==
    /\ pc = "prompt"
    /\ prompted' = TRUE
    /\ Exit(1, "non-interactive mode")
    /\ UNCHANGED <<api_key, tree_output, tree_returncode, response_content,
                   completion_called, generated_bash_script, script_shown,
                   confirm, executor_entered, bash_args, bash_returncode>>

\* org.py:229-231
GateAccept ==
    /\ pc = "gate"
    /\ IsConfirmed(confirm[1])
    /\ pc' = "execute"
    /\ UNCHANGED <<api_key, tree_output, tree_returncode, response_content,
                   completion_called, generated_bash_script, script_shown,
                   prompted, confirm, executor_entered, bash_args,
                   bash_returncode, exit_code,
                   message>>

\* org.py:234-236
GateDecline ==
    /\ pc = "gate"
    /\ ~IsConfirmed(confirm[1])
    /\ Exit(0, "execution cancelled by user")
    /\ UNCHANGED <<api_key, tree_output, tree_returncode, response_content,
                   completion_called, generated_bash_script, script_shown,
                   prompted, confirm, executor_entered, bash_args,
                   bash_returncode>>

(* -------------------------- execute_bash_script ------------------------ *)

\* org.py:149-155
ExecNothing ==
    /\ pc = "execute"
    /\ executor_entered' = TRUE
    /\ clean_script(generated_bash_script) = <<>>
    /\ pc' = "finished"
    /\ UNCHANGED <<api_key, tree_output, tree_returncode, response_content,
                   completion_called, generated_bash_script, script_shown,
                   prompted, confirm, bash_args, bash_returncode, exit_code,
                   message>>

\* org.py:152-170: there is a command line, /bin/bash -ec is started
ExecInvoke ==
    /\ pc = "execute"
    /\ executor_entered' = TRUE
    /\ clean_script(generated_bash_script) # <<>>
    /\ bash_args' = <<generated_bash_script>>
    /\ pc' = "bash"
    /\ UNCHANGED <<api_key, tree_output, tree_returncode, response_content,
                   completion_called, generated_bash_script, script_shown,
                   prompted, confirm, bash_returncode, exit_code, message>>

\* org.py:164-179
BashOk ==
    /\ pc = "bash"
    /\ bash_returncode' = <<0>>
    /\ pc' = "finished"
    /\ UNCHANGED <<api_key, tree_output, tree_returncode, response_content,
                   completion_called, generated_bash_script, script_shown,
                   prompted, confirm, executor_entered, bash_args, exit_code,
                   message>>

\* org.py:181-192; an IndexError at line 184 would end the process with status 1
BashFailed ==
    /\ pc = "bash"
    /\ \E rc \in ReturnCodes \cup SignalCodes :
          /\ bash_returncode' = <<rc>>
          /\ IF HintLineExists(generated_bash_script)
             THEN Exit(rc, "script failed")
             ELSE Exit(1, "uncaught IndexError")
    /\ UNCHANGED <<api_key, tree_output, tree_returncode, response_content,
                   completion_called, generated_bash_script, script_shown,
                   prompted, confirm, executor_entered, bash_args>>

\* org.py:194-196
BashUnexpected ==
    /\ pc = "bash"
    /\ Exit(1, "unexpected error during script execution")
    /\ UNCHANGED <<api_key, tree_output, tree_returncode, response_content,
                   completion_called, generated_bash_script, script_shown,
                   prompted, confirm, executor_entered, bash_args,
                   bash_returncode>>

\* org.py:232-233 and the end of the module
Finish ==
    /\ pc = "finished"
    /\ Exit(0, "script execution attempt finished")
    /\ UNCHANGED <<api_key, tree_output, tree_returncode, response_content,
                   completion_called, generated_bash_script, script_shown,
                   prompted, confirm, executor_entered, bash_args,
                   bash_returncode>>

Next ==
    \/ TreeOk
    \/ TreeNotFound
    \/ TreeFailed
    \/ TreeUnexpected
    \/ ListingInsignificant
    \/ ListingSignificant
    \/ GroqNoKey
    \/ GroqError
    \/ GroqResponse
    \/ ShowScript
    \/ ReadConfirm
    \/ ReadConfirmEOF
    \/ GateAccept
    \/ GateDecline
    \/ ExecNothing
    \/ ExecInvoke
    \/ BashOk
    \/ BashFailed
    \/ BashUnexpected
    \/ Finish

Spec == Init /\ [][Next]_vars

TypeOK ==
    /\ pc \in {"run_tree", "check_listing", "completion", "show", "prompt",
               "gate", "execute", "bash", "finished", "exited"}
    /\ api_key \in ApiKeys
    /\ completion_called \in BOOLEAN
    /\ script_shown \in BOOLEAN
    /\ prompted \in BOOLEAN
    /\ executor_entered \in BOOLEAN
    /\ Len(exit_code) <= 1
    /\ (pc = "exited") = (exit_code # <<>>)

(* ------------------------------- claims -------------------------------- *)

\* the lines the confirmation gate is specified to accept
Affirmative == {<<"y">>, <<"Y">>}

\* input() returned a line
LineRead == prompted /\ confirm # <<>>

\* input() raised EOFError
EndOfInput == prompted /\ confirm = <<>>

\* C1: the interpreter is invoked, and execute_bash_script entered, only
\* after the confirmation prompt returned a line that is "y" or "Y", and the
\* interpreter is handed the generated script.
C1_ExecutionOnlyAfterConfirmation ==
    /\ (executor_entered \/ bash_args # <<>> \/ bash_returncode # <<>>
          \/ pc \in {"execute", "bash", "finished"})
         => (script_shown /\ LineRead /\ confirm[1] \in Affirmative)
    /\ bash_args # <<>> => bash_args = <<generated_bash_script>>

C1_Witness ==
    /\ bash_args = <<generated_bash_script>>
    /\ confirm = << <<"Y">> >>
    /\ bash_returncode = <<0>>

\* C2: once a line has been read at the prompt, the step taken at the gate
\* enters the executor if the line is "y" or "Y"; for every other line
\* (empty, "yes", " y", "n", ...) it terminates the process with exit code 0
\* and the executor is never entered.
C2_GateDecides ==
    /\ [](LineRead /\ confirm[1] \notin Affirmative
            => /\ ~executor_entered
               /\ bash_args = <<>>
               /\ pc \in {"gate", "exited"}
               /\ (pc = "exited" => exit_code = <<0>>))
    /\ [][pc = "gate" /\ confirm[1] \in Affirmative
            => pc' = "execute" /\ exit_code' = <<>>]_vars
    /\ [][pc = "gate" /\ confirm[1] \notin Affirmative
            => pc' = "exited" /\ exit_code' = <<0>>]_vars
    /\ [][pc = "execute" => executor_entered']_vars

C2_Witness ==
    /\ confirm = << <<"Y">> >>
    /\ executor_entered

\* C3: when reading the confirmation hits end-of-input, the process has
\* terminated with a non-zero exit code and the executor was never entered.
C3_EndOfInputAborts ==
    EndOfInput =>
        /\ pc = "exited"
        /\ exit_code # <<>>
        /\ exit_code # <<0>>
        /\ ~executor_entered
        /\ bash_args = <<>>

C3_Witness ==
    /\ EndOfInput
    /\ script_shown
    /\ exit_code = <<1>>

\* the summary line of an empty directory, without a leading blank
ZERO_SUMMARY ==
    <<"0", " ", "d", "i", "r", "e", "c", "t", "o", "r", "i", "e", "s", ",",
      " ", "0", " ", "f", "i", "l", "e", "s">>

\* C4: once the listing has been examined, a listing that contains
\* "0 directories, 0 files" (whatever precedes it) or is empty or
\* whitespace-only has ended the run with exit code 0, without the completion
\* service, the confirmation prompt or the executor.
C4_EmptyListingExitsZero ==
    (/\ tree_returncode = <<0>>
     /\ pc # "check_listing"
     /\ \/ contains(ZERO_SUMMARY, tree_output)
        \/ \A i \in 1..Len(tree_output) : IsSpace(tree_output[i]))
    => /\ pc = "exited"
       /\ exit_code = <<0>>
       /\ ~completion_called
       /\ ~prompted
       /\ ~executor_entered

\* text is inner, or inner after one added interpreter directive line
IsUnwrapped(text, inner) ==
    \/ text = strip(inner)
    \/ /\ startswith(text, BIN_BASH)
       /\ strip(SliceFrom(text, Len(BIN_BASH))) = strip(inner)

\* C5: for a response that is a fenced block (opening fence, any language
\* tag, inner content, closing fence) the normalized script is the inner
\* content, optionally preceded by one added directive line, with no fence
\* marker and no part of the tag left.
C5_FenceUnwrapped ==
    \A l \in Pads, r \in Pads, t \in Tags, i \in Inners :
        response_content = l \o Fenced(t, i) \o r
            => /\ IsUnwrapped(generated_bash_script, i)
               /\ ~contains(FENCE, generated_bash_script)

\* C6 as stated: with the credential absent the process terminates with exit
\* code 1, whatever the listing step did, and the completion service is never
\* called, no script shown, nothing executed.
C6_NoKeyAlwaysExitsOne ==
    api_key = None =>
        /\ ~completion_called
        /\ ~script_shown
        /\ ~executor_entered
        /\ bash_args = <<>>
        /\ (pc = "exited" => exit_code = <<1>>)

\* C6 amended: with the credential absent the completion service is never
\* called, no script is shown, no confirmation is asked and nothing is
\* executed, whatever the listing step did; the process terminates with exit
\* code 1 when the listing succeeded and was passed on to the completion
\* step, and otherwise with the exit code of the listing step.
C6_NoKeyNeverCallsService ==
    api_key = None =>
        /\ ~completion_called
        /\ ~script_shown
        /\ ~prompted
        /\ ~executor_entered
        /\ bash_args = <<>>
        /\ pc \in {"run_tree", "check_listing", "completion", "exited"}
        /\ (pc = "exited" /\ tree_returncode = <<0>>
              /\ ~contains(EMPTY_MARKER, tree_output)
              /\ (\E i \in 1..Len(tree_output) : ~IsSpace(tree_output[i]))
            => exit_code = <<1>>)

C6_Witness ==
    /\ api_key = None
    /\ pc = "exited"
    /\ tree_returncode = <<0>>
    /\ message = "GROQ_API_KEY not set"
    /\ exit_code = <<1>>

\* C7: when the listing utility or the confirmed script terminates with a
\* non-zero exit code c, the process has terminated with exit code c; after
\* a listing failure there was no completion call, no prompt, no execution;
\* a terminated process takes no further step.
C7_ExitCodePropagated ==
    /\ [](\A c \in 1..255 :
            /\ tree_returncode = <<c>>
                 => /\ pc = "exited" /\ exit_code = <<c>>
                    /\ ~completion_called /\ ~script_shown /\ ~prompted
                    /\ ~executor_entered /\ bash_args = <<>>
            /\ bash_returncode = <<c>>
                 => pc = "exited" /\ exit_code = <<c>>)
    /\ [][pc # "exited"]_vars

C7_Witness ==
    /\ bash_returncode = <<MaxReturnCode>>
    /\ exit_code = <<MaxReturnCode>>
    /\ message = "script failed"

\* the completion service answered None, "" or whitespace only
EmptyResponseReceived ==
    /\ response_content # NoResponse
    /\ \/ response_content = None
       \/ \A i \in 1..Len(response_content) : IsSpace(response_content[i])

\* C8: for a None, empty or whitespace-only response the script is the
\* non-empty placeholder, the call was not a fatal error, and the run is at
\* the display of that placeholder or has displayed it and reached the
\* confirmation prompt.
C8_EmptyResponsePlaceholder ==
    EmptyResponseReceived
        => /\ generated_bash_script = PLACEHOLDER
           /\ generated_bash_script # <<>>
           /\ message # "error during the Groq API call"
           /\ \/ pc = "show"
              \/ script_shown /\ (pc = "prompt" \/ prompted)

C8_Witness ==
    /\ response_content = <<" ">>
    /\ script_shown
    /\ pc = "prompt"
    /\ generated_bash_script = PLACEHOLDER

\* C9: for a response whose trimmed text starts with "#!" the script starts
\* with the same first line, no directive is prepended, and "#!" occurs in
\* the script as many times as in the response.
C9_DirectiveKept ==
    (/\ response_content # NoResponse
     /\ response_content # None
     /\ startswith(strip(response_content), HASHBANG))
    => /\ splitlines(generated_bash_script)[1]
            = splitlines(strip(response_content))[1]
       /\ Count(HASHBANG, generated_bash_script)
            = Count(HASHBANG, response_content)
       /\ Len(generated_bash_script) <= Len(response_content)

C9_Witness ==
    /\ response_content = NL \o SH_LINE \o NL \o <<"l", "s">>
    /\ generated_bash_script = SH_LINE \o NL \o <<"l", "s">>

\* every line of text is blank or has '#' as its first non-blank character
OnlyBlankOrComment(text) ==
    \A k \in 1..Len(splitlines(text)) :
        LET line == splitlines(text)[k]
        IN  \/ \A i \in 1..Len(line) : IsSpace(line[i])
            \/ \E i \in 1..Len(line) :
                  line[i] = "#" /\ \A j \in 1..(i-1) : IsSpace(line[j])

\* C10: once the executor is entered with a script whose lines are all blank
\* or comment-only, the interpreter is never invoked and the process ends
\* with exit code 0; with any other script the interpreter is invoked on the
\* full script text.
C10_CommentOnlySkipped ==
    /\ executor_entered /\ OnlyBlankOrComment(generated_bash_script)
         => /\ bash_args = <<>>
            /\ bash_returncode = <<>>
            /\ pc \in {"finished", "exited"}
            /\ (pc = "exited" => exit_code = <<0>>)
    /\ executor_entered /\ ~OnlyBlankOrComment(generated_bash_script)
         => bash_args = <<generated_bash_script>>

C10_Witness ==
    /\ executor_entered
    /\ generated_bash_script = BIN_BASH \o NL \o <<"#", " ", "x">>
    /\ bash_args = <<>>
    /\ exit_code = <<0>>

====
